---- MODULE Spec2Model ----
(***************************************************************************)
(* A model of leonardo-cli: the HTTP adapter (internal/provider), the      *)
(* application service (internal/service) and the domain types they        *)
(* exchange.  JSON documents are trees, HTTP exchanges are records, Go     *)
(* errors are the sequence of text segments of their message.              *)
(***************************************************************************)
EXTENDS Integers, Sequences, FiniteSets, TLC

VARIABLES
    apiKey,     \* APIClient.apiKey
    input,      \* the argument a caller has prepared for the next call
    last,       \* the last completed client call: request sent, result, error
    dl,         \* the activation record of GenerationService.Download
    files       \* the paths present on the local disk

vars == <<apiKey, input, last, dl, files>>

(***************************************************************************)
(* Bounds                                                                  *)
(***************************************************************************)
MaxImages == 2      \* longest generated_images array the remote returns
MaxList == 1        \* longest generations array the remote returns
MaxEntries == 3     \* longest generated_images array given to the status decoder

(***************************************************************************)
(* JSON documents.  A response body is either text that is not JSON or a   *)
(* JSON value; a number is the fraction n/d.                               *)
(***************************************************************************)
JStr(s) == [t |-> "string", s |-> s]
JNum(n, d) == [t |-> "number", n |-> n, d |-> d]
JInt(n) == JNum(n, 1)
JBool(b) == [t |-> "bool", b |-> b]
JArr(a) == [t |-> "array", a |-> a]
JObj(o) == [t |-> "object", o |-> o]
JNull == [t |-> "null"]
NotJSON(s) == [t |-> "bad", s |-> s]
NoKeys == <<>>

\* Go float64 values: finite n/d, NaN, or an infinity of sign n.
Fin(n, d) == [k |-> "fin", n |-> n, d |-> d]
NaN == [k |-> "nan", n |-> 0, d |-> 1]
PosInf == [k |-> "inf", n |-> 1, d |-> 1]
FloatZero == Fin(0, 1)
FloatGT0(f) == f.k # "nan" /\ f.n > 0

\* json.Unmarshal(bodyBytes, &decoded) with decoded a map[string]interface{}:
\* fails on text that is not JSON and on a JSON value that is no object;
\* null leaves the map nil and reports no error.
Unmarshal(body) ==
    IF body.t = "object" THEN [err |-> FALSE, m |-> body.o]
    ELSE IF body.t = "null" THEN [err |-> FALSE, m |-> NoKeys]
    ELSE [err |-> TRUE, m |-> NoKeys]

\* m[k] of a Go map: the nil interface when the key is absent.
MapGet(m, k) == IF k \in DOMAIN m THEN m[k] ELSE JNull

\* The comma-ok type assertions v.(string), v.(map[string]interface{}),
\* v.([]interface{}) and v.(float64).
IsString(v) == v.t = "string"
IsMap(v) == v.t = "object"
IsSlice(v) == v.t = "array"
IsFloat64(v) == v.t = "number"

\* A string field of a decoded object, or "" when absent or not a string.
StringField(m, k) == IF IsString(MapGet(m, k)) THEN MapGet(m, k).s ELSE ""

(***************************************************************************)
(* Go errors: the message as a sequence of text segments.                  *)
(***************************************************************************)
NoError == <<>>
Errorf1(prefix, arg) == <<prefix, arg>>
Wrap(prefix, cause) == <<prefix>> \o cause
ErrContains(e, s) == \E i \in DOMAIN e : e[i] = s

(***************************************************************************)
(* domain.GenerationRequest                                                *)
(***************************************************************************)
GenerationRequest(p, np, mid, w, h, n, seed, tags, priv, al, ul, st, c, g) ==
    [Prompt |-> p, NegativePrompt |-> np, ModelID |-> mid, Width |-> w,
     Height |-> h, NumImages |-> n, Seed |-> seed, Tags |-> tags,
     Private |-> priv, Alchemy |-> al, Ultra |-> ul, StyleUUID |-> st,
     Contrast |-> c, GuidanceScale |-> g]


\* The request values callers build: every optional field takes its zero
\* value, a usual value and, for the numbers, a negative or non-finite one.
Prompts == {"a cat"}
NegativePrompts == {"", "blurry"}
ModelIDs == {"", "model-abc"}
Widths == {-1, 0, 512}
Heights == {0, 768}
ImageCounts == {0, 1, 3}
Seeds == {-1, 0, 42}
TagLists == {<<>>, <<"tag-a">>}
StyleUUIDs == {"", "style-123"}
Contrasts == {FloatZero, Fin(5, 2), Fin(-1, 1)}
GuidanceScales == {FloatZero, Fin(8, 1), NaN, PosInf}

Requests ==
    { GenerationRequest(p, np, mid, w, h, n, seed, tags, priv, al, ul, st, c, g) :
        p \in Prompts, np \in NegativePrompts, mid \in ModelIDs, w \in Widths,
        h \in Heights, n \in ImageCounts, seed \in Seeds, tags \in TagLists,
        priv \in BOOLEAN, al \in BOOLEAN, ul \in BOOLEAN, st \in StyleUUIDs,
        c \in Contrasts, g \in GuidanceScales }

\* The few requests the long-running machine issues.
ZeroRequest ==
    GenerationRequest("a cat", "", "", 0, 0, 0, 0, <<>>, FALSE, FALSE, FALSE, "",
                      FloatZero, FloatZero)
FullRequest ==
    GenerationRequest("a cat", "blurry", "model-abc", 512, 768, 3, 42, <<"tag-a">>,
                      TRUE, TRUE, TRUE, "style-123", Fin(5, 2), Fin(8, 1))
SomeRequests ==
    {ZeroRequest, FullRequest, [ZeroRequest EXCEPT !.GuidanceScale = NaN],
     [ZeroRequest EXCEPT !.Contrast = PosInf]}

(***************************************************************************)
(* provider.APIClient.CreateGeneration: the request encoder                *)
(***************************************************************************)
\* Go values stored in bodyMap (a map[string]interface{}).
GoString(s) == [t |-> "string", s |-> s]
GoInt(n) == [t |-> "int", n |-> n]
GoBool(b) == [t |-> "bool", b |-> b]
GoFloat(f) == [t |-> "float64", f |-> f]

\* Mutant of BodyKeys: the guard on width is lost.
BodyKeysWidthUnguarded(req) ==
    {"prompt", "num_images", "width"}
        \cup (IF req.ModelID # "" THEN {"modelId"} ELSE {})
        \cup (IF req.Height > 0 THEN {"height"} ELSE {})
        \cup (IF req.Alchemy THEN {"alchemy"} ELSE {})
        \cup (IF req.Ultra THEN {"ultra"} ELSE {})
        \cup (IF req.StyleUUID # "" THEN {"styleUUID"} ELSE {})
        \cup (IF FloatGT0(req.Contrast) THEN {"contrast"} ELSE {})
        \cup (IF FloatGT0(req.GuidanceScale) THEN {"guidance_scale"} ELSE {})

\* The keys CreateGeneration puts in bodyMap: the two of the literal, then one
\* per guarded assignment.
BodyKeys(req) ==
    {"prompt", "num_images"}
        \cup (IF req.ModelID # "" THEN {"modelId"} ELSE {})
        \cup (IF req.Width > 0 THEN {"width"} ELSE {})
        \cup (IF req.Height > 0 THEN {"height"} ELSE {})
        \cup (IF req.Alchemy THEN {"alchemy"} ELSE {})
        \cup (IF req.Ultra THEN {"ultra"} ELSE {})
        \cup (IF req.StyleUUID # "" THEN {"styleUUID"} ELSE {})
        \cup (IF FloatGT0(req.Contrast) THEN {"contrast"} ELSE {})
        \cup (IF FloatGT0(req.GuidanceScale) THEN {"guidance_scale"} ELSE {})

\* The value stored under each key.
BodyValue(req, k) ==
    CASE k = "prompt" -> GoString(req.Prompt)
      [] k = "num_images" -> GoInt(req.NumImages)
      [] k = "modelId" -> GoString(req.ModelID)
      [] k = "width" -> GoInt(req.Width)
      [] k = "height" -> GoInt(req.Height)
      [] k = "alchemy" -> GoBool(TRUE)
      [] k = "ultra" -> GoBool(TRUE)
      [] k = "styleUUID" -> GoString(req.StyleUUID)
      [] k = "contrast" -> GoFloat(req.Contrast)
      [] k = "guidance_scale" -> GoFloat(req.GuidanceScale)

BodyMap(req) == [k \in BodyKeys(req) |-> BodyValue(req, k)]

\* json.Marshal of one Go value, and whether encoding/json supports it
\* (NaN and the infinities are unsupported values).
\* Mutant of Marshalable: every value is taken as encodable.
MarshalableAlways(v) == TRUE

Marshalable(v) == v.t = "float64" => v.f.k = "fin"
MarshalValue(v) ==
    CASE v.t = "string" -> JStr(v.s)
      [] v.t = "int" -> JInt(v.n)
      [] v.t = "bool" -> JBool(v.b)
      [] v.t = "float64" -> JNum(v.f.n, v.f.d)

\* json.Marshal(bodyMap): the JSON object, or an error and no bytes.
Marshal(m) ==
    IF \A k \in DOMAIN m : Marshalable(m[k])
    THEN [err |-> FALSE, doc |-> JObj([k \in DOMAIN m |-> MarshalValue(m[k])])]
    ELSE [err |-> TRUE, doc |-> NotJSON("")]


(***************************************************************************)
(* The HTTP exchange.  A request is what http.NewRequest and Header.Set    *)
(* build; an outcome is what httpClient.Do and ioutil.ReadAll deliver.     *)
(***************************************************************************)
BaseURL == "https://cloud.leonardo.ai/api/rest/v1"
NoBody == [t |-> "none"]
EmptyBytes == NotJSON("")

\* Mutant of HTTPRequest: the Authorization header is not set.
HTTPRequestWithoutCredential(method, url, headers, body) ==
    [method |-> method, url |-> url,
     headers |-> [h \in DOMAIN headers \ {"Authorization"} |-> headers[h]],
     body |-> body]

HTTPRequest(method, url, headers, body) ==
    [method |-> method, url |-> url, headers |-> headers, body |-> body]

\* Mutant of FormatInt: a negative number is sent as 0.
FormatIntClamped(n) == ToString(IF n < 0 THEN 0 ELSE n)

\* The %d verb of fmt.Sprintf
FormatInt(n) == ToString(n)

TransportFailure(msg) == [kind |-> "transport", code |-> 0, body |-> EmptyBytes, msg |-> msg]
ReadFailure(code, msg) == [kind |-> "read", code |-> code, body |-> EmptyBytes, msg |-> msg]
Response(code, body) == [kind |-> "http", code |-> code, body |-> body, msg |-> ""]

\* url.Parse inside http.NewRequest rejects a URL in which the inserted
\* identifier holds a malformed percent escape.
URLParses(identifier) == identifier # "gen%zz"

\* The zero values of the response structs.
ZeroGenerationResponse == [GenerationID |-> "", Raw |-> EmptyBytes]
ZeroGenerationStatus == [Status |-> "", Images |-> <<>>, Raw |-> EmptyBytes]
ZeroDeleteResponse == [ID |-> "", Raw |-> EmptyBytes]
ZeroUserInfo ==
    [UserID |-> "", Username |-> "", APISubscriptionTokens |-> 0,
     APIPaidTokens |-> 0, TokenRenewalDate |-> "", Raw |-> EmptyBytes]
ZeroGenerationListResponse == [Generations |-> <<>>, Raw |-> EmptyBytes]
ZeroGenerationListItem ==
    [ID |-> "", Status |-> "", CreatedAt |-> "", Prompt |-> "", Images |-> <<>>]

\* Mutant of WithRaw: the body of a rejected call is not kept.
WithRawDropped(zero, body) == zero

\* A response struct literal that sets Raw alone, as domain.GenerationStatus{Raw: bodyBytes}.
WithRaw(zero, body) == [zero EXCEPT !.Raw = body]

\* What a client call hands back to its caller, with the requests it issued.
\* Mutant of Returned: a failed request is sent a second time.
ReturnedAfterRetry(sent, ret, err) ==
    [sent |-> IF err # NoError THEN sent \o sent ELSE sent, ret |-> ret, err |-> err]

Returned(sent, ret, err) == [sent |-> sent, ret |-> ret, err |-> err]

\* fmt.Errorf("API returned status %d", resp.StatusCode)
StatusError(code) == Errorf1("API returned status ", ToString(code))

\* Mutant of IsFailureStatus: only 4xx and 5xx count as failures.
IsFailureStatusFrom400(code) == code >= 400

\* resp.StatusCode >= 300
IsFailureStatus(code) == code >= 300

\* The decoding of a create response (the generation id, "" when not found).
GenerationIDOf(body) ==
    LET decoded == Unmarshal(body)
        job == MapGet(decoded.m, "sdGenerationJob")
    IN  IF ~decoded.err /\ IsMap(job) THEN StringField(job.o, "generationId") ELSE ""

CreateGeneration(key, req, o) ==
    LET payload == Marshal(BodyMap(req))
        httpReq ==
            HTTPRequest("POST", BaseURL \o "/generations",
                        ("Content-Type" :> "application/json")
                            @@ ("Accept" :> "application/json")
                            @@ ("Authorization" :> "Bearer " \o key),
                        payload.doc)
    IN  IF payload.err
        THEN Returned(<<>>, ZeroGenerationResponse,
                      Wrap("encoding request body: ", <<"json: unsupported value">>))
        ELSE IF o.kind = "transport"
        THEN Returned(<<httpReq>>, ZeroGenerationResponse,
                      Wrap("executing request: ", <<o.msg>>))
        ELSE IF o.kind = "read"
        THEN Returned(<<httpReq>>, ZeroGenerationResponse,
                      Wrap("reading response: ", <<o.msg>>))
        ELSE IF IsFailureStatus(o.code)
        THEN Returned(<<httpReq>>, WithRaw(ZeroGenerationResponse, o.body),
                      StatusError(o.code))
        ELSE Returned(<<httpReq>>,
                      [GenerationID |-> GenerationIDOf(o.body), Raw |-> o.body],
                      NoError)


(***************************************************************************)
(* provider.APIClient.GetGenerationStatus                                  *)
(***************************************************************************)
\* An entry of generated_images that yields a URL: an object whose url is a
\* string.
HasURL(item) == IsMap(item) /\ IsString(MapGet(item.o, "url"))

\* Mutant of ImageURLs: the URLs are prepended, so the order is reversed.
ImageURLsReversed(imgs) ==
    LET sel == SelectSeq(imgs, HasURL)
    IN  [i \in 1..Len(sel) |-> sel[Len(sel) + 1 - i].o.url.s]

\* The loop over generated_images: append the url of every entry that has one.
ImageURLs(imgs) ==
    LET sel == SelectSeq(imgs, HasURL)
    IN  [i \in 1..Len(sel) |-> sel[i].o.url.s]

\* The decoding of a status response into domain.GenerationStatus.
DecodeStatus(body) ==
    LET decoded == Unmarshal(body)
        gen == MapGet(decoded.m, "generations_by_pk")
        imgs == IF IsMap(gen) THEN MapGet(gen.o, "generated_images") ELSE JNull
    IN  IF ~decoded.err /\ IsMap(gen)
        THEN [Status |-> StringField(gen.o, "status"),
              Images |-> IF IsSlice(imgs) THEN ImageURLs(imgs.a) ELSE <<>>,
              Raw |-> body]
        ELSE WithRaw(ZeroGenerationStatus, body)

\* Mutant of StatusFromBody: a body that does not parse is reported as an error.
StatusFromBodyStrict(body) ==
    IF Unmarshal(body).err
    THEN [ret |-> WithRaw(ZeroGenerationStatus, body),
          err |-> Wrap("decoding response: ", <<"invalid character">>)]
    ELSE [ret |-> DecodeStatus(body), err |-> NoError]

\* What GetGenerationStatus returns for a 2xx response: the decoded status
\* and a nil error, whatever json.Unmarshal said.
StatusFromBody(body) == [ret |-> DecodeStatus(body), err |-> NoError]

GetGenerationStatus(key, id, o) ==
    LET url == BaseURL \o "/generations/" \o id
        httpReq ==
            HTTPRequest("GET", url,
                        ("Accept" :> "application/json")
                            @@ ("Authorization" :> "Bearer " \o key),
                        NoBody)
    IN  IF ~URLParses(id)
        THEN Returned(<<>>, ZeroGenerationStatus,
                      Wrap("creating request: ", <<"invalid URL escape">>))
        ELSE IF o.kind = "transport"
        THEN Returned(<<httpReq>>, ZeroGenerationStatus,
                      Wrap("executing request: ", <<o.msg>>))
        ELSE IF o.kind = "read"
        THEN Returned(<<httpReq>>, ZeroGenerationStatus,
                      Wrap("reading response: ", <<o.msg>>))
        ELSE IF IsFailureStatus(o.code)
        THEN Returned(<<httpReq>>, WithRaw(ZeroGenerationStatus, o.body),
                      StatusError(o.code))
        ELSE Returned(<<httpReq>>, StatusFromBody(o.body).ret, StatusFromBody(o.body).err)

(***************************************************************************)
(* provider.APIClient.DeleteGeneration                                     *)
(***************************************************************************)
\* The decoding of a delete response into domain.DeleteResponse.
DecodeDelete(body) ==
    LET decoded == Unmarshal(body)
        del == MapGet(decoded.m, "delete_generations_by_pk")
    IN  [ID |-> IF ~decoded.err /\ IsMap(del) THEN StringField(del.o, "id") ELSE "",
         Raw |-> body]

DeleteGeneration(key, id, o) ==
    LET url == BaseURL \o "/generations/" \o id
        httpReq ==
            HTTPRequest("DELETE", url,
                        ("Accept" :> "application/json")
                            @@ ("Authorization" :> "Bearer " \o key),
                        NoBody)
    IN  IF ~URLParses(id)
        THEN Returned(<<>>, ZeroDeleteResponse,
                      Wrap("creating request: ", <<"invalid URL escape">>))
        ELSE IF o.kind = "transport"
        THEN Returned(<<httpReq>>, ZeroDeleteResponse,
                      Wrap("executing request: ", <<o.msg>>))
        ELSE IF o.kind = "read"
        THEN Returned(<<httpReq>>, ZeroDeleteResponse,
                      Wrap("reading response: ", <<o.msg>>))
        ELSE IF IsFailureStatus(o.code)
        THEN Returned(<<httpReq>>, WithRaw(ZeroDeleteResponse, o.body),
                      StatusError(o.code))
        ELSE Returned(<<httpReq>>, DecodeDelete(o.body), NoError)

(***************************************************************************)
(* provider.APIClient.GetUserInfo                                          *)
(***************************************************************************)
\* int(tokens) for a float64: the fraction is dropped, towards zero.
\* Mutant of TruncateToInt: the balance is rounded to the nearest integer.
TruncateToIntRounded(n, d) == (2 * n + d) \div (2 * d)

\* int(tokens) for the float64 n/d (d > 0): the fraction is dropped, toward zero.
TruncateToInt(n, d) == IF n >= 0 THEN n \div d ELSE -((-n) \div d)

\* A token balance of the detail object: int(v) when v is a number, else 0.
TokenField(m, k) ==
    IF IsFloat64(MapGet(m, k)) THEN TruncateToInt(MapGet(m, k).n, MapGet(m, k).d) ELSE 0

\* The decoding of a user-info response into domain.UserInfo.
DecodeUserInfo(body) ==
    LET decoded == Unmarshal(body)
        details == MapGet(decoded.m, "user_details")
        detail == IF IsSlice(details) /\ Len(details.a) > 0 THEN details.a[1] ELSE JNull
        user == IF IsMap(detail) THEN MapGet(detail.o, "user") ELSE JNull
    IN  IF ~decoded.err /\ IsMap(detail)
        THEN [UserID |-> IF IsMap(user) THEN StringField(user.o, "id") ELSE "",
              Username |-> IF IsMap(user) THEN StringField(user.o, "username") ELSE "",
              APISubscriptionTokens |-> TokenField(detail.o, "apiSubscriptionTokens"),
              APIPaidTokens |-> TokenField(detail.o, "apiPaidTokens"),
              TokenRenewalDate |-> StringField(detail.o, "apiPlanTokenRenewalDate"),
              Raw |-> body]
        ELSE WithRaw(ZeroUserInfo, body)

GetUserInfo(key, o) ==
    LET httpReq ==
            HTTPRequest("GET", BaseURL \o "/me",
                        ("Accept" :> "application/json")
                            @@ ("Authorization" :> "Bearer " \o key),
                        NoBody)
    IN  IF o.kind = "transport"
        THEN Returned(<<httpReq>>, ZeroUserInfo, Wrap("executing request: ", <<o.msg>>))
        ELSE IF o.kind = "read"
        THEN Returned(<<httpReq>>, ZeroUserInfo, Wrap("reading response: ", <<o.msg>>))
        ELSE IF IsFailureStatus(o.code)
        THEN Returned(<<httpReq>>, WithRaw(ZeroUserInfo, o.body),
                      StatusError(o.code))
        ELSE Returned(<<httpReq>>, DecodeUserInfo(o.body), NoError)

(***************************************************************************)
(* provider.APIClient.ListGenerations                                      *)
(***************************************************************************)
\* The inner loop over one generation's generated_images.
\* Mutant of ListItemImages: the URLs are collected last to first.
ListItemImagesReversed(imgs) ==
    LET sel == SelectSeq(imgs, HasURL)
    IN  [i \in 1..Len(sel) |-> sel[Len(sel) + 1 - i].o.url.s]

ListItemImages(imgs) ==
    LET sel == SelectSeq(imgs, HasURL)
    IN  [i \in 1..Len(sel) |-> sel[i].o.url.s]

\* One domain.GenerationListItem from one object of the generations array.
ListItem(gen) ==
    [ID |-> StringField(gen, "id"),
     Status |-> StringField(gen, "status"),
     CreatedAt |-> StringField(gen, "createdAt"),
     Prompt |-> StringField(gen, "prompt"),
     Images |-> IF IsSlice(MapGet(gen, "generated_images"))
                THEN ListItemImages(MapGet(gen, "generated_images").a)
                ELSE <<>>]

\* The decoding of a list response into domain.GenerationListResponse.
DecodeList(body) ==
    LET decoded == Unmarshal(body)
        gens == MapGet(decoded.m, "generations")
        objs == IF IsSlice(gens) THEN SelectSeq(gens.a, IsMap) ELSE <<>>
    IN  [Generations |-> IF decoded.err THEN <<>>
                         ELSE [i \in 1..Len(objs) |-> ListItem(objs[i].o)],
         Raw |-> body]

ListGenerations(key, userID, offset, limit, o) ==
    LET url == BaseURL \o "/generations/user/" \o userID \o "?offset="
                   \o FormatInt(offset) \o "&limit=" \o FormatInt(limit)
        httpReq ==
            HTTPRequest("GET", url,
                        ("Accept" :> "application/json")
                            @@ ("Authorization" :> "Bearer " \o key),
                        NoBody)
    IN  IF ~URLParses(userID)
        THEN Returned(<<>>, ZeroGenerationListResponse,
                      Wrap("creating request: ", <<"invalid URL escape">>))
        ELSE IF o.kind = "transport"
        THEN Returned(<<httpReq>>, ZeroGenerationListResponse,
                      Wrap("executing request: ", <<o.msg>>))
        ELSE IF o.kind = "read"
        THEN Returned(<<httpReq>>, ZeroGenerationListResponse,
                      Wrap("reading response: ", <<o.msg>>))
        ELSE IF IsFailureStatus(o.code)
        THEN Returned(<<httpReq>>, WithRaw(ZeroGenerationListResponse, o.body),
                      StatusError(o.code))
        ELSE Returned(<<httpReq>>, DecodeList(o.body), NoError)


(***************************************************************************)
(* provider.APIClient.DownloadImage: one GET of an image URL, written to   *)
(* destPath.  A transport failure or a status outside 2xx is an error and  *)
(* leaves no file.                                                         *)
(***************************************************************************)
\* Mutant of ImageStatusOK: only codes from 400 on count as failures.
ImageStatusOKBelow400(code) == code >= 200 /\ code < 400

\* The image answer is a success: a 2xx status.
ImageStatusOK(code) == code >= 200 /\ code < 300

DownloadImage(url, destPath, o) ==
    LET httpReq == HTTPRequest("GET", url, NoKeys, NoBody)
    IN  IF o.kind = "transport"
        THEN [sent |-> <<httpReq>>, wrote |-> FALSE, data |-> EmptyBytes,
              err |-> Wrap("downloading image: ", <<o.msg>>)]
        ELSE IF o.kind = "read"
        THEN [sent |-> <<httpReq>>, wrote |-> FALSE, data |-> EmptyBytes,
              err |-> Wrap("writing image: ", <<o.msg>>)]
        ELSE IF ~ImageStatusOK(o.code)
        THEN [sent |-> <<httpReq>>, wrote |-> FALSE, data |-> EmptyBytes,
              err |-> Errorf1("image download returned status ", ToString(o.code))]
        ELSE [sent |-> <<httpReq>>, wrote |-> TRUE, data |-> o.body, err |-> NoError]

\* The disk is a set of files, each a path and its content; writing a path
\* replaces what was there.
WriteFile(fs, path, data) ==
    {f \in fs : f.path # path} \cup {[path |-> path, data |-> data]}
\* The paths that exist on a disk.
Paths(fs) == {f.path : f \in fs}

(***************************************************************************)
(* service.GenerationService                                               *)
(***************************************************************************)
\* A completed call of one of the five pass-through operations.
Unsent == [kind |-> "unsent", code |-> 0, body |-> EmptyBytes, msg |-> ""]
\* Mutant of Call: the service wraps the client's error.
CallErrorWrapped(op, args, o, r) ==
    [op |-> op, args |-> args, outcome |-> IF r.sent = <<>> THEN Unsent ELSE o,
     sent |-> r.sent, ret |-> r.ret,
     err |-> IF r.err = NoError THEN NoError ELSE <<"service: ">> \o r.err]

\* Mutant of Call: the result of the previous call of the same operation is
\* returned again.
CallCached(op, args, o, r) ==
    [op |-> op, args |-> args, outcome |-> IF r.sent = <<>> THEN Unsent ELSE o,
     sent |-> r.sent, ret |-> IF last.op = op THEN last.ret ELSE r.ret,
     err |-> r.err]

Call(op, args, o, r) ==
    [op |-> op, args |-> args, outcome |-> IF r.sent = <<>> THEN Unsent ELSE o,
     sent |-> r.sent, ret |-> r.ret, err |-> r.err]
NoCall == [op |-> "none"]
NoInput == [op |-> "none"]

\* filepath.Join(outputDir, name): empty elements are dropped and the result
\* is cleaned, so "." contributes nothing.
PathJoin(dir, name) ==
    IF dir \in {"", "."} THEN name ELSE dir \o "/" \o name

\* Mutant of DestPath: the file index is the loop's 0-based index.
DestPathZeroBased(dir, id, i) == PathJoin(dir, id \o "_" \o ToString(i - 1) \o ".png")

\* fmt.Sprintf("%s_%d.png", id, i+1) under outputDir, for the i-th URL (i from 1).
DestPath(dir, id, i) == PathJoin(dir, id \o "_" \o ToString(i) \o ".png")

\* Mutant of ZeroDownloadResult: the result names a file already written.
PartialDownloadResult == [FilePaths |-> <<"out/gen-1_1.png">>]

ZeroDownloadResult == [FilePaths |-> <<>>]

\* Download's activation record: where it stands, what the status call
\* returned, the DownloadImage calls made so far, and what it returned.
IdleDownload == [pc |-> "idle"]
DownloadFrame(pc, id, dir, st, calls, paths, res, err) ==
    [pc |-> pc, id |-> id, outputDir |-> dir, status |-> st, calls |-> calls,
     filePaths |-> paths, result |-> res, err |-> err]

\* Mutant of IsComplete: the label is compared without regard to case.
IsCompleteAnyCase(status) == status \in {"COMPLETE", "complete"}

\* Mutant of IsComplete: a missing label counts as complete.
IsCompleteOrEmpty(status) == status \in {"COMPLETE", ""}

\* status.Status != "COMPLETE", negated
IsComplete(status) == status = "COMPLETE"

\* Mutant of HasNoImages: an empty image list is let through.
HasNoImagesNever(images) == FALSE

\* len(status.Images) == 0
HasNoImages(images) == Len(images) = 0

\* fmt.Errorf("generation is not complete, current status: %s", status.Status)
NotCompleteError(status) == Errorf1("generation is not complete, current status: ", status)

\* fmt.Errorf("no images available for generation %s", id)
NoImagesError(id) == Errorf1("no images available for generation ", id)

\* Mutant of DownloadFailed: a failed fetch does not stop the loop.
DownloadFailedIgnored(err) == FALSE

\* if err := s.client.DownloadImage(imgURL, destPath); err != nil
DownloadFailed(err) == err # NoError

\* Mutant of NextIndex: the loop does not advance.
NextIndexStuck(calls) == 1

\* for i, imgURL := range status.Images: the 1-based position of the next
\* image, one past the calls made so far.
NextIndex(calls) == Len(calls) + 1

\* fmt.Errorf("downloading image %d: %w", i+1, err), i+1 being the 1-based index
ImageError(index, err) == Wrap("downloading image ", <<ToString(index), ": ">> \o err)


(***************************************************************************)
(* What the remote system and the network may answer                       *)
(***************************************************************************)
SuccessCodes == {200, 299}
FailureCodes == {300, 404, 500}
ErrorBody == JObj([error |-> JStr("not found")])

\* Bodies any endpoint may answer with: not JSON, empty, JSON that is no
\* object, an object without the expected wrapper.
OddBodies ==
    {NotJSON("<html>"), EmptyBytes, JNull, JArr(<<>>), JObj(NoKeys), ErrorBody}

\* The outcomes of one API request whose 2xx answers carry a body of `bodies`;
\* a rejected request carries an error body or a body that would decode.
Outcomes(bodies, good) ==
    {TransportFailure("connection refused"), ReadFailure(200, "unexpected EOF")}
        \cup {Response(200, b) : b \in bodies \cup OddBodies}
        \cup {Response(c, good) : c \in SuccessCodes}
        \cup {Response(c, b) : c \in FailureCodes, b \in {ErrorBody, good}}

CreateBody(id) == JObj([sdGenerationJob |-> JObj([generationId |-> id])])
CreateBodies ==
    {CreateBody(JStr("gen-1")), CreateBody(JInt(7)),
     JObj([sdGenerationJob |-> JStr("gen-1")]),
     JObj([sdGenerationJob |-> JObj([generationId |-> JStr("gen-1")]),
           extra |-> JStr("kept")])}
CreateOutcomes == Outcomes(CreateBodies, CreateBody(JStr("gen-1")))

ImageURL(i) == JObj([url |-> JStr("https://cdn.leonardo.ai/img" \o ToString(i) \o ".png")])
StatusBody(label, imgs) ==
    JObj([generations_by_pk |-> JObj([status |-> label, generated_images |-> JArr(imgs)])])
\* The first n well-formed image entries.
FirstImages(n) == [i \in 1..n |-> ImageURL(i)]
StatusBodies ==
    {StatusBody(JStr("COMPLETE"), FirstImages(n)) : n \in 0..MaxImages}
        \cup {StatusBody(JStr(l), <<>>) : l \in {"PENDING", "FAILED", "complete"}}
        \cup {StatusBody(JInt(1), FirstImages(1)),
              JObj([generations_by_pk |-> JObj([generated_images |-> JArr(FirstImages(1))])]),
              JObj([generations_by_pk |-> JObj([status |-> JStr("PENDING")])]),
              JObj([generations_by_pk |-> JStr("COMPLETE")]),
              StatusBody(JStr("COMPLETE"), <<JObj([id |-> JStr("no-url")]), ImageURL(1)>>)}
StatusOutcomes == Outcomes(StatusBodies, StatusBody(JStr("COMPLETE"), FirstImages(1)))

DeleteBody(id) == JObj([delete_generations_by_pk |-> JObj([id |-> id])])
DeleteBodies ==
    {DeleteBody(JStr("gen-1")), DeleteBody(JInt(7)),
     JObj([delete_generations_by_pk |-> JNull])}
DeleteOutcomes == Outcomes(DeleteBodies, DeleteBody(JStr("gen-1")))

UserDetail(sub, paid) ==
    JObj([user |-> JObj([id |-> JStr("user-1"), username |-> JStr("ada")]),
          apiSubscriptionTokens |-> sub, apiPaidTokens |-> paid,
          apiPlanTokenRenewalDate |-> JStr("2026-01-01T00:00:00Z")])
UserBodies ==
    {JObj([user_details |-> JArr(<<UserDetail(JInt(150), JInt(0))>>)]),
     JObj([user_details |-> JArr(<<UserDetail(JNum(7, 2), JStr("many")),
                                   UserDetail(JInt(1), JInt(1))>>)]),
     JObj([user_details |-> JArr(<<UserDetail(JNum(1999, 1000), JInt(-3)),
                                   JStr("detail")>>)]),
     JObj([user_details |-> JArr(<<>>)]),
     JObj([user_details |-> JArr(<<JStr("detail"), UserDetail(JInt(1), JInt(1))>>)]),
     JObj([user_details |-> JArr(<<JObj([user |-> JStr("user-1")])>>)])}
UserOutcomes ==
    Outcomes(UserBodies, JObj([user_details |-> JArr(<<UserDetail(JInt(150), JInt(0))>>)]))

ListEntry(i) ==
    JObj([id |-> JStr("gen-" \o ToString(i)), status |-> JStr("COMPLETE"),
          createdAt |-> JStr("2026-01-01"), prompt |-> JStr("a cat"),
          generated_images |-> JArr(FirstImages(1))])
ListBody(gens) == JObj([generations |-> JArr(gens)])
ListBodies ==
    {ListBody([i \in 1..n |-> ListEntry(i)]) : n \in 0..MaxList}
        \cup {ListBody(<<JStr("gen-1"), ListEntry(1)>>),
              ListBody(<<JObj([id |-> JInt(1)])>>),
              JObj([generations |-> JStr("none")])}
ListOutcomes == Outcomes(ListBodies, ListBody(<<ListEntry(1)>>))

\* What fetching one image URL may end in.
ImageOutcomes ==
    {Response(200, NotJSON("png-bytes")), Response(404, NotJSON("not found")),
     TransportFailure("connection refused")}

\* The arguments callers pass.
IDs == {"gen-1", "gen-2", "gen%zz"}
OutputDirs == {"out"}
ListArgs ==
    {[userID |-> "user-1", offset |-> 0, limit |-> 10],
     [userID |-> "user-1", offset |-> -1, limit |-> 0],
     [userID |-> "gen%zz", offset |-> 0, limit |-> 10]}


(***************************************************************************)
(* The machine: a caller invokes the service, one call at a time.          *)
(***************************************************************************)
Init ==
    /\ apiKey = "test-api-key"
    /\ input = NoInput
    /\ last = NoCall
    /\ dl = IdleDownload
    /\ files = {}

\* The caller is blocked inside Download while its loop runs.
Busy == dl.pc = "loop"

\* GenerationService.Create
Create(req, o) ==
    /\ ~Busy
    /\ last' = Call("create", [req |-> req], o, CreateGeneration(apiKey, req, o))
    /\ dl' = IdleDownload
    /\ UNCHANGED <<apiKey, input, files>>

\* GenerationService.Status
Status(id, o) ==
    /\ ~Busy
    /\ last' = Call("status", [id |-> id], o, GetGenerationStatus(apiKey, id, o))
    /\ dl' = IdleDownload
    /\ UNCHANGED <<apiKey, input, files>>

\* GenerationService.Delete
Delete(id, o) ==
    /\ ~Busy
    /\ last' = Call("delete", [id |-> id], o, DeleteGeneration(apiKey, id, o))
    /\ dl' = IdleDownload
    /\ UNCHANGED <<apiKey, input, files>>

\* GenerationService.UserInfo
UserInfo(o) ==
    /\ ~Busy
    /\ last' = Call("userinfo", NoKeys, o, GetUserInfo(apiKey, o))
    /\ dl' = IdleDownload
    /\ UNCHANGED <<apiKey, input, files>>

\* GenerationService.ListGenerations
List(a, o) ==
    /\ ~Busy
    /\ last' = Call("list", a, o,
                    ListGenerations(apiKey, a.userID, a.offset, a.limit, o))
    /\ dl' = IdleDownload
    /\ UNCHANGED <<apiKey, input, files>>

\* GenerationService.Download up to its loop: the status call and the two
\* precondition checks.
DownloadBegin(id, dir, o) ==
    LET r == GetGenerationStatus(apiKey, id, o)
        frame(pc, err) ==
            DownloadFrame(pc, id, dir,
                          Call("status", [id |-> id], o, r), <<>>, <<>>,
                          ZeroDownloadResult, err)
    IN  /\ ~Busy
        /\ dl' = IF r.err # NoError THEN frame("done", r.err)
                 ELSE IF ~IsComplete(r.ret.Status)
                 THEN frame("done", NotCompleteError(r.ret.Status))
                 ELSE IF HasNoImages(r.ret.Images)
                 THEN frame("done", NoImagesError(id))
                 ELSE IF Len(r.ret.Images) = 0
                 THEN frame("done", NoError)   \* the loop body never runs
                 ELSE frame("loop", NoError)
        /\ last' = NoCall
        /\ UNCHANGED <<apiKey, input, files>>

\* One iteration of Download's loop, and its return when the iteration is the
\* last or fails.
DownloadNext(o) ==
    LET i == NextIndex(dl.calls)
        imgURL == dl.status.ret.Images[i]
        destPath == DestPath(dl.outputDir, dl.id, i)
        r == DownloadImage(imgURL, destPath, o)
        calls == Append(dl.calls, [url |-> imgURL, destPath |-> destPath,
                                   sent |-> r.sent, err |-> r.err])
        filePaths == Append(dl.filePaths, destPath)
    IN  /\ Busy
        /\ files' = IF r.wrote THEN WriteFile(files, destPath, r.data) ELSE files
        /\ dl' = IF DownloadFailed(r.err)
                 THEN [dl EXCEPT !.pc = "done", !.calls = calls,
                                 !.result = ZeroDownloadResult,
                                 !.err = ImageError(i, r.err)]
                 ELSE IF i = Len(dl.status.ret.Images)
                 THEN [dl EXCEPT !.pc = "done", !.calls = calls,
                                 !.filePaths = filePaths,
                                 !.result = [FilePaths |-> filePaths]]
                 ELSE [dl EXCEPT !.calls = calls, !.filePaths = filePaths]
        /\ UNCHANGED <<apiKey, input, last>>

Next ==
    \/ \E req \in SomeRequests, o \in CreateOutcomes : Create(req, o)
    \/ \E id \in IDs, o \in StatusOutcomes : Status(id, o)
    \/ \E id \in IDs, o \in DeleteOutcomes : Delete(id, o)
    \/ \E o \in UserOutcomes : UserInfo(o)
    \/ \E a \in ListArgs, o \in ListOutcomes : List(a, o)
    \/ \E id \in IDs, dir \in OutputDirs, o \in StatusOutcomes : DownloadBegin(id, dir, o)
    \/ \E o \in ImageOutcomes : DownloadNext(o)

Spec == Init /\ [][Next]_vars

(***************************************************************************)
(* The request encoder on every request value: a caller has built one      *)
(* request and calls CreateGeneration with it.                             *)
(***************************************************************************)
InitCreate ==
    /\ apiKey = "test-api-key"
    /\ input \in {[op |-> "create", req |-> r] : r \in Requests}
    /\ last = NoCall
    /\ dl = IdleDownload
    /\ files = {}

CreateDrawn(o) ==
    /\ input.op = "create"
    /\ last' = Call("create", [req |-> input.req], o,
                    CreateGeneration(apiKey, input.req, o))
    /\ input' = NoInput
    /\ UNCHANGED <<apiKey, dl, files>>

NextCreate ==
    \E o \in {Response(200, CreateBody(JStr("gen-1"))), Response(404, ErrorBody)} :
        CreateDrawn(o)

SpecCreate == InitCreate /\ [][NextCreate]_vars


(***************************************************************************)
(* The status decoder on every shape of generated_images: a status         *)
(* response has arrived and GetGenerationStatus decodes it.                *)
(***************************************************************************)
\* Entries of generated_images: two with a url, one without, one whose url
\* is a number, one that is no object.
ImageEntries ==
    {JObj([url |-> JStr("https://cdn.leonardo.ai/a.png")]),
     JObj([url |-> JStr("https://cdn.leonardo.ai/b.png"), id |-> JStr("img-b")]),
     JObj([id |-> JStr("img-c")]),
     JObj([url |-> JInt(7)]),
     JStr("https://cdn.leonardo.ai/e.png")}
EntryArrays == UNION {[1..n -> ImageEntries] : n \in 0..MaxEntries}
DrawnStatusBodies ==
    {StatusBody(JStr("COMPLETE"), a) : a \in EntryArrays}
        \cup {JObj([generations_by_pk |-> JObj([generated_images |-> JArr(a)])]) :
                a \in EntryArrays}
        \cup StatusBodies \cup OddBodies

InitStatus ==
    /\ apiKey = "test-api-key"
    /\ input \in {[op |-> "status", body |-> b] : b \in DrawnStatusBodies}
    /\ last = NoCall
    /\ dl = IdleDownload
    /\ files = {}

StatusDrawn(id, code) ==
    /\ input.op = "status"
    /\ last' = Call("status", [id |-> id], Response(code, input.body),
                    GetGenerationStatus(apiKey, id, Response(code, input.body)))
    /\ input' = NoInput
    /\ UNCHANGED <<apiKey, dl, files>>

NextStatus == \E id \in {"gen-1"}, code \in SuccessCodes \cup {404} : StatusDrawn(id, code)

SpecStatus == InitStatus /\ [][NextStatus]_vars


(***************************************************************************)
(* DownloadImage on every answer: a caller holds an image URL and a        *)
(* destination that does not exist yet, and calls DownloadImage.           *)
(***************************************************************************)
DrawnImageURLs ==
    {"https://cdn.leonardo.ai/img1.png", "https://cdn.leonardo.ai/missing.png",
     "http://127.0.0.1:8080/some/image.png"}
DrawnDestPaths == {"out/image.png", "out/gen-1_1.png", "image.png"}
\* What is on disk before the call: nothing, or a file of an earlier download.
DrawnDisks == {{}, {[path |-> "out/gen-0_1.png", data |-> NotJSON("old-bytes")]}}
ImageBodies == {NotJSON("fake-png-image-data"), NotJSON("not found"), EmptyBytes}
ImageAnswers ==
    {TransportFailure("connection refused")}
        \cup {Response(c, b) : c \in SuccessCodes \cup {204} \cup FailureCodes,
                               b \in ImageBodies}

InitImage ==
    /\ apiKey = "test-api-key"
    /\ input \in {[op |-> "image", url |-> u, destPath |-> p] :
                     u \in DrawnImageURLs, p \in DrawnDestPaths}
    /\ last = NoCall
    /\ dl = IdleDownload
    /\ files \in DrawnDisks

ImageDrawn(o) ==
    LET r == DownloadImage(input.url, input.destPath, o)
    IN  /\ input.op = "image"
        /\ last' = [op |-> "image",
                    args |-> [url |-> input.url, destPath |-> input.destPath],
                    outcome |-> o, sent |-> r.sent, err |-> r.err]
        /\ files' = IF r.wrote THEN WriteFile(files, input.destPath, r.data) ELSE files
        /\ input' = NoInput
        /\ UNCHANGED <<apiKey, dl>>

NextImage == \E o \in ImageAnswers : ImageDrawn(o)

SpecImage == InitImage /\ [][NextImage]_vars


(***************************************************************************)
(* The list decoder on every shape of the generations array: a list        *)
(* response has arrived and ListGenerations decodes it.                    *)
(***************************************************************************)
\* Elements of generations: two full summaries, one with two images around
\* an entry without url, one whose id is a number and that has nothing
\* else, and one that is no object.
GenerationEntries ==
    {ListEntry(1), ListEntry(2),
     JObj([id |-> JStr("gen-3"), status |-> JStr("PENDING"),
           generated_images |->
               JArr(<<JObj([url |-> JStr("https://cdn.leonardo.ai/b.png")]),
                      JObj([id |-> JStr("img-c")]),
                      JObj([url |-> JStr("https://cdn.leonardo.ai/a.png")])>>)]),
     JObj([id |-> JInt(4), generated_images |-> JStr("none")]),
     JStr("gen-5")}
GenerationArrays == UNION {[1..n -> GenerationEntries] : n \in 0..MaxEntries}
DrawnListBodies == {ListBody(a) : a \in GenerationArrays} \cup ListBodies \cup OddBodies

InitList ==
    /\ apiKey = "test-api-key"
    /\ input \in {[op |-> "list", body |-> b] : b \in DrawnListBodies}
    /\ last = NoCall
    /\ dl = IdleDownload
    /\ files = {}

ListDrawn(a, code) ==
    /\ input.op = "list"
    /\ last' = Call("list", a, Response(code, input.body),
                    ListGenerations(apiKey, a.userID, a.offset, a.limit,
                                    Response(code, input.body)))
    /\ input' = NoInput
    /\ UNCHANGED <<apiKey, dl, files>>

NextList ==
    \E a \in {[userID |-> "user-1", offset |-> 0, limit |-> 10]},
       code \in SuccessCodes \cup {404} : ListDrawn(a, code)

SpecList == InitList /\ [][NextList]_vars


(***************************************************************************)
(* The inspect command: a user names a file and inspectSidecar reads and   *)
(* prints it.                                                              *)
(***************************************************************************)
\* os.ReadFile(path): the content, or an error when no file is there.
ReadFile(fs, path) ==
    IF path \in Paths(fs)
    THEN [err |-> NoError, data |-> (CHOOSE f \in fs : f.path = path).data]
    ELSE [err |-> <<"open ", path, ": no such file or directory">>, data |-> EmptyBytes]

\* json.Indent accepts exactly the texts that are valid JSON.
IndentFails(data) == data.t = "bad"

\* prettyPrintJSON(data): prints the document indented, or the raw data when
\* json.Indent fails; it returns nothing.
PrettyPrintJSON(data) ==
    IF IndentFails(data) THEN [indented |-> FALSE, text |-> data]
    ELSE [indented |-> TRUE, text |-> data]

NothingPrinted == [indented |-> FALSE, text |-> EmptyBytes]

\* inspectSidecar(path): the error it returns and what it printed.
InspectSidecar(fs, path) ==
    LET read == ReadFile(fs, path)
    IN  IF read.err # NoError
        THEN [err |-> Wrap("reading sidecar: ", read.err), printed |-> NothingPrinted]
        ELSE [err |-> NoError, printed |-> PrettyPrintJSON(read.data)]

\* What a sidecar path may hold: a sidecar, other JSON, text that is no
\* JSON, nothing.
SidecarContents ==
    {JObj([generation_id |-> JStr("gen-test"), prompt |-> JStr("hello")]),
     JObj(NoKeys), JArr(<<JInt(1)>>), NotJSON("not-json"), EmptyBytes}
InspectPaths == {"out/gen-test.json", "out/invalid.json", "out/absent.json"}
\* The disks: each of the first two paths holds one of the contents or is
\* missing; the third is always missing.
InspectDisks ==
    {a \cup b :
        a \in {{}} \cup {{[path |-> "out/gen-test.json", data |-> c]} : c \in SidecarContents},
        b \in {{}} \cup {{[path |-> "out/invalid.json", data |-> c]} : c \in SidecarContents}}

InitInspect ==
    /\ apiKey = "test-api-key"
    /\ input \in {[op |-> "inspect", path |-> p] : p \in InspectPaths}
    /\ last = NoCall
    /\ dl = IdleDownload
    /\ files \in InspectDisks

Inspect ==
    LET r == InspectSidecar(files, input.path)
    IN  /\ input.op = "inspect"
        /\ last' = [op |-> "inspect", args |-> [path |-> input.path],
                    err |-> r.err, printed |-> r.printed]
        /\ input' = NoInput
        /\ UNCHANGED <<apiKey, dl, files>>

NextInspect == Inspect

SpecInspect == InitInspect /\ [][NextInspect]_vars


(***************************************************************************)
(* Properties of the request encoder (checked under SpecCreate)            *)
(***************************************************************************)
\* A create call whose payload was serialized and put on the wire.
Encoded == last.op = "create" /\ Len(last.sent) = 1
\* The JSON object sent as the body of that call.
Payload == last.sent[1].body.o

OptionalFieldsZero(req) ==
    /\ req.NegativePrompt = "" /\ req.ModelID = "" /\ req.StyleUUID = ""
    /\ req.Width = 0 /\ req.Height = 0 /\ req.Seed = 0 /\ req.Tags = <<>>
    /\ ~req.Private /\ ~req.Alchemy /\ ~req.Ultra
    /\ req.Contrast = FloatZero /\ req.GuidanceScale = FloatZero

\* C1: a request whose optional fields are all zero-valued is encoded as a
\* payload with exactly the keys prompt and num_images.
C1_MinimalPayload ==
    (Encoded /\ OptionalFieldsZero(last.args.req))
        => DOMAIN Payload = {"prompt", "num_images"}

C1_Witness ==
    /\ Encoded
    /\ OptionalFieldsZero(last.args.req)
    /\ last.args.req.NumImages = 1
    /\ Payload = [prompt |-> JStr("a cat"), num_images |-> JInt(1)]

\* The key is in the payload exactly when the field is set, and then carries
\* the field's value.
SentIffSet(key, isSet, value) ==
    /\ (key \in DOMAIN Payload) <=> isSet
    /\ (key \in DOMAIN Payload) => Payload[key] = value

\* C2: each optional field is in the payload if and only if it differs from
\* its zero value, whatever its sign, and then with the request's value.
C2_EachFieldIffNonZero ==
    Encoded =>
        LET req == last.args.req
        IN  /\ SentIffSet("negative_prompt", req.NegativePrompt # "", JStr(req.NegativePrompt))
            /\ SentIffSet("modelId", req.ModelID # "", JStr(req.ModelID))
            /\ SentIffSet("width", req.Width # 0, JInt(req.Width))
            /\ SentIffSet("height", req.Height # 0, JInt(req.Height))
            /\ SentIffSet("seed", req.Seed # 0, JInt(req.Seed))
            /\ SentIffSet("styleUUID", req.StyleUUID # "", JStr(req.StyleUUID))
            /\ SentIffSet("contrast", req.Contrast # FloatZero,
                          JNum(req.Contrast.n, req.Contrast.d))
            /\ SentIffSet("guidance_scale", req.GuidanceScale # FloatZero,
                          JNum(req.GuidanceScale.n, req.GuidanceScale.d))
            /\ SentIffSet("alchemy", req.Alchemy, JBool(TRUE))
            /\ SentIffSet("ultra", req.Ultra, JBool(TRUE))
            /\ ("tags" \in DOMAIN Payload) <=> (req.Tags # <<>>)

\* C3: prompt and num_images are always in the payload, and an unset image
\* count (0) is sent as 1.
C3_ImageCountDefaultsToOne ==
    Encoded =>
        /\ {"prompt", "num_images"} \subseteq DOMAIN Payload
        /\ last.args.req.NumImages = 0 => Payload["num_images"] = JInt(1)

\* C4: Private = TRUE is sent as public = false, Private = FALSE sends no
\* public key, and no key is ever named private.
C4_PrivateSentAsPublicFalse ==
    Encoded =>
        /\ SentIffSet("public", last.args.req.Private, JBool(FALSE))
        /\ "private" \notin DOMAIN Payload

(***************************************************************************)
(* Properties of the five API operations (checked under Spec)              *)
(***************************************************************************)
APIOps == {"create", "status", "delete", "userinfo", "list"}
ZeroOf(op) ==
    CASE op = "create" -> ZeroGenerationResponse
      [] op = "status" -> ZeroGenerationStatus
      [] op = "delete" -> ZeroDeleteResponse
      [] op = "userinfo" -> ZeroUserInfo
      [] op = "list" -> ZeroGenerationListResponse
\* The structured fields of a returned struct: the struct with Raw cleared.
Structured(ret) == [ret EXCEPT !.Raw = EmptyBytes]
\* The last call received an HTTP response (status line and whole body).
Answered == last.op \in APIOps /\ last.outcome.kind = "http"

\* C5: a response with status >= 300 yields an error that carries the status
\* code, Raw equal to the response body, and no decoded field.
C5_RejectionKeepsRawOnly ==
    (Answered /\ last.outcome.code >= 300) =>
        /\ last.err # NoError
        /\ ErrContains(last.err, ToString(last.outcome.code))
        /\ last.ret.Raw = last.outcome.body
        /\ Structured(last.ret) = ZeroOf(last.op)

C5_Witness ==
    /\ Answered
    /\ last.op = "status"
    /\ last.outcome = Response(404, StatusBody(JStr("COMPLETE"), FirstImages(1)))
    /\ last.err = <<"API returned status ", "404">>
    /\ last.ret = [Status |-> "", Images |-> <<>>, Raw |-> last.outcome.body]

\* C6: on a response with status < 300, Raw is the response body, whatever
\* the body is.
C6_RawIsBodyOnSuccess ==
    (Answered /\ last.outcome.code < 300) => last.ret.Raw = last.outcome.body

C6_Witness ==
    /\ Answered
    /\ last.op = "status"
    /\ last.outcome = Response(200, NotJSON("<html>"))
    /\ last.ret.Raw = NotJSON("<html>")

(***************************************************************************)
(* Properties of the status decoder (checked under SpecStatus)             *)
(***************************************************************************)
\* An entry of generated_images that is an object with a string url.
WellFormedEntry(e) == e.t = "object" /\ "url" \in DOMAIN e.o /\ e.o["url"].t = "string"
\* The generated_images array of a status body, when it has one.
HasImagesArray(body) ==
    /\ body.t = "object" /\ "generations_by_pk" \in DOMAIN body.o
    /\ body.o["generations_by_pk"].t = "object"
    /\ "generated_images" \in DOMAIN body.o["generations_by_pk"].o
    /\ body.o["generations_by_pk"].o["generated_images"].t = "array"
ImagesArray(body) == body.o["generations_by_pk"].o["generated_images"].a
\* How many well-formed entries the array has up to and including position i.
Rank(a, i) == Cardinality({k \in 1..i : WellFormedEntry(a[k])})

\* C7: Images is the url of the well-formed entries of generated_images, one
\* each, in input order: the entry at position i lands at its rank.
C7_ImagesAreURLsInOrder ==
    (last.op = "status" /\ last.outcome.kind = "http" /\ last.outcome.code < 300
        /\ HasImagesArray(last.outcome.body)) =>
        LET a == ImagesArray(last.outcome.body)
        IN  /\ Len(last.ret.Images) = Rank(a, Len(a))
            /\ \A i \in 1..Len(a) :
                 WellFormedEntry(a[i]) => last.ret.Images[Rank(a, i)] = a[i].o["url"].s

C7_Witness ==
    /\ last.op = "status" /\ last.outcome.kind = "http" /\ last.outcome.code = 200
    /\ HasImagesArray(last.outcome.body)
    /\ Len(ImagesArray(last.outcome.body)) = 3
    /\ ~WellFormedEntry(ImagesArray(last.outcome.body)[2])
    /\ last.ret.Images = <<"https://cdn.leonardo.ai/b.png", "https://cdn.leonardo.ai/a.png">>


(***************************************************************************)
(* Properties of the response decoders (checked under Spec)                *)
(***************************************************************************)
\* The member `key` of a JSON value, when the value is an object that has it.
Member(v, key) == IF v.t = "object" /\ key \in DOMAIN v.o THEN v.o[key] ELSE JNull
\* The wrapper each operation looks for in the response, and its JSON type.
WrapperKey(op) ==
    CASE op = "create" -> "sdGenerationJob"
      [] op = "status" -> "generations_by_pk"
      [] op = "delete" -> "delete_generations_by_pk"
      [] op = "userinfo" -> "user_details"
      [] op = "list" -> "generations"
WrapperType(op) == IF op \in {"userinfo", "list"} THEN "array" ELSE "object"
\* The body is not JSON, is JSON but no object, or lacks a wrapper of the
\* expected type.
WrapperMissing(op, body) == Member(body, WrapperKey(op)).t # WrapperType(op)
\* The first element of user_details, when the body has one.
FirstDetail(body) ==
    LET w == Member(body, "user_details")
    IN  IF w.t = "array" /\ Len(w.a) > 0 THEN w.a[1] ELSE JNull

\* C8: a response with status < 300 never yields an error; when the body is
\* malformed or lacks the wrapper every structured field is zero, and a key
\* that is absent or of the wrong type leaves its field zero.
C8_SuccessNeverErrors ==
    (Answered /\ last.outcome.code < 300) =>
        LET body == last.outcome.body
            w == Member(body, WrapperKey(last.op))
        IN  /\ last.err = NoError
            /\ WrapperMissing(last.op, body) => Structured(last.ret) = ZeroOf(last.op)
            /\ (last.op = "create" /\ Member(w, "generationId").t # "string")
                   => last.ret.GenerationID = ""
            /\ (last.op = "delete" /\ Member(w, "id").t # "string") => last.ret.ID = ""
            /\ (last.op = "status" /\ Member(w, "status").t # "string")
                   => last.ret.Status = ""
            /\ (last.op = "status" /\ Member(w, "generated_images").t # "array")
                   => last.ret.Images = <<>>
            /\ (last.op = "userinfo"
                    /\ Member(FirstDetail(body), "apiSubscriptionTokens").t # "number")
                   => last.ret.APISubscriptionTokens = 0
            /\ (last.op = "userinfo"
                    /\ Member(FirstDetail(body), "apiPaidTokens").t # "number")
                   => last.ret.APIPaidTokens = 0
            /\ (last.op = "userinfo" /\ Member(FirstDetail(body), "user").t # "object")
                   => last.ret.UserID = "" /\ last.ret.Username = ""

C8_Witness ==
    /\ Answered
    /\ last.op = "status"
    /\ last.outcome = Response(200, NotJSON("<html>"))
    /\ last.err = NoError
    /\ last.ret = [Status |-> "", Images |-> <<>>, Raw |-> NotJSON("<html>")]

(***************************************************************************)
(* Properties of Download (checked under Spec)                             *)
(***************************************************************************)
\* A step in which Download is called and runs up to its loop.
DownloadCalled == dl.pc # "loop" /\ dl'.pc # "idle"
\* The status call of the Download just called returned a status.
StatusFetched == dl'.status.err = NoError
NotCompleteText == "generation is not complete, current status: "
NoImagesText == "no images available for generation "

\* C9: when the fetched status label is not the complete label, Download
\* returns an error carrying the label, calls DownloadImage not once and
\* leaves the disk as it was.
C9_NotCompleteFails ==
    [][(DownloadCalled /\ StatusFetched /\ dl'.status.ret.Status # "COMPLETE") =>
          /\ dl'.pc = "done"
          /\ dl'.err # NoError
          /\ ErrContains(dl'.err, dl'.status.ret.Status)
          /\ dl'.result = ZeroDownloadResult
          /\ dl'.calls = <<>>
          /\ files' = files]_vars

C9_Witness ==
    /\ dl.pc = "done"
    /\ dl.status.err = NoError
    /\ dl.status.ret.Status = "PENDING"
    /\ dl.err = <<NotCompleteText, "PENDING">>
    /\ dl.calls = <<>>

\* C10: when the status is complete and the image list is empty, Download
\* returns the no-images error, which is not the not-complete error and
\* carries no status label, calls DownloadImage not once and leaves the disk
\* as it was.
C10_NoImagesFails ==
    [][(DownloadCalled /\ StatusFetched /\ dl'.status.ret.Status = "COMPLETE"
            /\ dl'.status.ret.Images = <<>>) =>
          /\ dl'.pc = "done"
          /\ dl'.err # NoError
          /\ ErrContains(dl'.err, NoImagesText)
          /\ ~ErrContains(dl'.err, NotCompleteText)
          /\ ~ErrContains(dl'.err, dl'.status.ret.Status)
          /\ dl'.calls = <<>>
          /\ files' = files]_vars

C10_Witness ==
    /\ dl.pc = "done"
    /\ dl.status.err = NoError
    /\ dl.status.ret.Status = "COMPLETE"
    /\ dl.status.ret.Images = <<>>
    /\ dl.err = <<NoImagesText, "gen-2">>
    /\ dl.calls = <<>>
    /\ files # {}

(***************************************************************************)
(* Properties of Download's loop (checked under Spec)                      *)
(***************************************************************************)
\* Download got a status and went past or stopped at its checks.
DownloadRan == dl.pc \in {"loop", "done"} /\ dl.status.err = NoError
\* The destination of the k-th image as the description names it.
NamedDest(k) == dl.outputDir \o "/" \o dl.id \o "_" \o ToString(k) \o ".png"
\* Download returned without error.
DownloadSucceeded == DownloadRan /\ dl.pc = "done" /\ dl.err = NoError

Carries(outer, inner) == \A j \in 1..Len(inner) : ErrContains(outer, inner[j])

\* C12: a failed fetch is the last DownloadImage call Download makes, and
\* the error Download returns names the 1-based index of that image and
\* carries the text of the fetch's failure.
C12_FailFast ==
    DownloadRan =>
        \A k \in 1..Len(dl.calls) :
            dl.calls[k].err # NoError =>
                /\ k = Len(dl.calls)
                /\ dl.pc = "done"
                /\ ErrContains(dl.err, ToString(k))
                /\ Carries(dl.err, dl.calls[k].err)
                /\ dl.result = ZeroDownloadResult

C12_Witness ==
    /\ DownloadRan /\ dl.pc = "done"
    /\ Len(dl.status.ret.Images) = 2
    /\ Len(dl.calls) = 1
    /\ dl.calls[1].err = <<"image download returned status ", "404">>
    /\ dl.err = <<"downloading image ", "1", ": ",
                  "image download returned status ", "404">>

\* The sidecar of an image file: its path with ".json" appended.
SidecarPath(path) == path \o ".json"

\* C13: when the fetch of image N fails, the image file and the sidecar of
\* every image before N are on disk when Download returns, and no step of
\* Download removes a file.
C13_NoRollback ==
    [][/\ Paths(files) \subseteq Paths(files')
       /\ (dl'.pc = "done" /\ dl'.status.err = NoError /\ dl'.err # NoError) =>
            \A k \in 1..(Len(dl'.calls) - 1) :
                /\ dl'.calls[k].destPath \in Paths(files')
                /\ SidecarPath(dl'.calls[k].destPath) \in Paths(files')]_vars

\* C14: after a successful Download every returned image path has a sidecar
\* next to it: a JSON object with the generation id, the image's source URL,
\* a timestamp and a parameters object.
C14_SidecarPerImage ==
    DownloadSucceeded =>
        \A k \in 1..Len(dl.result.FilePaths) :
            \E f \in files :
                /\ f.path = SidecarPath(dl.result.FilePaths[k])
                /\ f.data.t = "object"
                /\ {"generation_id", "image_url", "timestamp", "parameters"}
                       \subseteq DOMAIN f.data.o
                /\ f.data.o["generation_id"] = JStr(dl.id)
                /\ f.data.o["image_url"] = JStr(dl.status.ret.Images[k])
                /\ f.data.o["parameters"].t = "object"

(***************************************************************************)
(* Properties of DownloadImage (checked under SpecImage)                   *)
(***************************************************************************)
\* DownloadImage was called and the image URL answered.
Fetched == last.op = "image" /\ last.outcome.kind = "http"

\* C15: a non-2xx answer makes DownloadImage fail with an error carrying the
\* status code and leaves no file at the destination; a 2xx answer leaves at
\* the destination a file whose content is the response body.
C15_NoFileOnRejection ==
    Fetched =>
        LET code == last.outcome.code
            dest == last.args.destPath
        IN  /\ (code < 200 \/ code >= 300) =>
                 /\ last.err # NoError
                 /\ ErrContains(last.err, ToString(code))
                 /\ dest \notin Paths(files)
            /\ (code >= 200 /\ code < 300) =>
                 /\ last.err = NoError
                 /\ {f \in files : f.path = dest}
                        = {[path |-> dest, data |-> last.outcome.body]}

C15_Witness ==
    /\ Fetched
    /\ last.outcome = Response(404, NotJSON("not found"))
    /\ last.args.destPath = "out/image.png"
    /\ ErrContains(last.err, "404")
    /\ "out/image.png" \notin Paths(files)
    /\ files # {}

(***************************************************************************)
(* Properties of the requests put on the wire (checked under Spec)         *)
(***************************************************************************)
\* The requests a call sent.
RequestsOf(call) == {call.sent[i] : i \in 1..Len(call.sent)}
\* The headers an API request of operation op must carry.
CarriesCredential(op, req) ==
    /\ "Authorization" \in DOMAIN req.headers
    /\ req.headers["Authorization"] = "Bearer " \o apiKey
    /\ "Accept" \in DOMAIN req.headers
    /\ req.headers["Accept"] = "application/json"
    /\ ("Content-Type" \in DOMAIN req.headers) <=> (op = "create")
    /\ (req.body # NoBody) <=> (op = "create")

\* C16: every request of the five API operations carries Authorization =
\* "Bearer " + the configured key and Accept = application/json, only create
\* (the only request with a body) sets Content-Type, and no image-download
\* request carries an Authorization header.
C16_CredentialOnAPIRequestsOnly ==
    /\ last.op \in APIOps => \A req \in RequestsOf(last) : CarriesCredential(last.op, req)
    /\ dl.pc \in {"loop", "done"} =>
          /\ \A req \in RequestsOf(dl.status) : CarriesCredential("status", req)
          /\ \A k \in 1..Len(dl.calls) :
               \A req \in RequestsOf(dl.calls[k]) :
                   "Authorization" \notin DOMAIN req.headers

C16_Witness ==
    /\ dl.pc = "done"
    /\ Len(dl.status.sent) = 1
    /\ dl.status.sent[1].headers["Authorization"] = "Bearer test-api-key"
    /\ Len(dl.calls) = 2
    /\ Len(dl.calls[2].sent) = 1
    /\ DOMAIN dl.calls[2].sent[1].headers = {}

(***************************************************************************)
(* Properties of a call's outcome (checked under Spec)                     *)
(***************************************************************************)
\* The error is that of a rejection: it reports an HTTP status.
ReportsStatus(err) == ErrContains(err, "API returned status ")
\* The call ended before or without a complete response.
NoResponse == last.outcome.kind \in {"transport", "read", "unsent"}

\* C17: a call ends as a transport failure (error without status code, zero
\* struct, empty Raw), as a rejection (error with the status code, Raw set)
\* or as a success, and a success whose body could not be parsed differs,
\* in its error or its structured fields, from what a body that parsed but
\* lacked the expected fields returns (no error and zero fields).
C17_OutcomesDistinguishable ==
    last.op \in APIOps =>
        /\ NoResponse =>
              /\ last.err # NoError
              /\ ~ReportsStatus(last.err)
              /\ last.ret = ZeroOf(last.op)
        /\ (Answered /\ last.outcome.code >= 300) =>
              /\ ReportsStatus(last.err)
              /\ ErrContains(last.err, ToString(last.outcome.code))
              /\ last.ret.Raw = last.outcome.body
        /\ (Answered /\ last.outcome.code < 300) => ~ReportsStatus(last.err)
        /\ (Answered /\ last.outcome.code < 300 /\ Unmarshal(last.outcome.body).err) =>
              \/ last.err # NoError
              \/ Structured(last.ret) # ZeroOf(last.op)

(***************************************************************************)
(* Properties of the request line (checked under Spec)                     *)
(***************************************************************************)
APIRoot == "https://cloud.leonardo.ai/api/rest/v1"
\* The method and URL the description gives for an operation and its arguments.
NamedMethod(op) ==
    CASE op = "create" -> "POST"
      [] op = "delete" -> "DELETE"
      [] op \in {"status", "userinfo", "list"} -> "GET"
NamedURL(op, args) ==
    CASE op = "create" -> APIRoot \o "/generations"
      [] op \in {"status", "delete"} -> APIRoot \o "/generations/" \o args.id
      [] op = "userinfo" -> APIRoot \o "/me"
      [] op = "list" ->
            APIRoot \o "/generations/user/" \o args.userID
                \o "?offset=" \o ToString(args.offset)
                \o "&limit=" \o ToString(args.limit)
\* The identifier an operation inserts into its path, "" when it has none.
IdentifierOf(op, args) ==
    CASE op \in {"status", "delete"} -> args.id
      [] op = "list" -> args.userID
      [] op \in {"create", "userinfo"} -> ""
\* The call sent one request, with the named method and URL.
SentAsNamed ==
    /\ Len(last.sent) = 1
    /\ last.sent[1].method = NamedMethod(last.op)
    /\ last.sent[1].url = NamedURL(last.op, last.args)

\* C18 as stated: every call, whatever its identifier, offset and limit,
\* sends the request with the fixed method and the URL holding them verbatim.
C18_VerbatimForEveryIdentifier ==
    (last.op \in APIOps \ {"create"} \/ (last.op = "create" /\ last.sent # <<>>))
        => SentAsNamed

\* C18: each operation sends its fixed method and path with the identifier,
\* offset and limit verbatim, unless the identifier makes the URL unparsable:
\* then the call fails with "creating request" and sends nothing.
C18_FixedMethodAndPath ==
    (last.op \in APIOps \ {"create"} \/ (last.op = "create" /\ last.sent # <<>>)) =>
        IF URLParses(IdentifierOf(last.op, last.args))
        THEN SentAsNamed
        ELSE /\ last.sent = <<>>
             /\ ErrContains(last.err, "creating request: ")
             /\ last.ret = ZeroOf(last.op)

C18_Witness ==
    /\ last.op = "list"
    /\ last.args = [userID |-> "user-1", offset |-> -1, limit |-> 0]
    /\ Len(last.sent) = 1
    /\ last.sent[1].method = "GET"
    /\ last.sent[1].url
          = "https://cloud.leonardo.ai/api/rest/v1/generations/user/user-1?offset=-1&limit=0"

(***************************************************************************)
(* Properties of the user-info decoder (checked under Spec)                *)
(***************************************************************************)
\* The body with user_details cut down to its first element.
FirstDetailOnly(body) ==
    JObj([k \in DOMAIN body.o |->
            IF k = "user_details" THEN JArr(<<body.o[k].a[1]>>) ELSE body.o[k]])
\* balance is the JSON number v without its fractional part: v itself when v
\* is integral, the floor of v when v is fractional and not negative.
DropsFraction(v, balance) ==
    /\ v.d = 1 => balance = v.n
    /\ v.n >= 0 => (balance * v.d <= v.n /\ v.n < (balance + 1) * v.d)

\* C19: only the first element of user_details is read, and each token
\* balance is its JSON number with the fractional part dropped.
C19_FirstDetailBalancesTruncated ==
    (last.op = "userinfo" /\ Answered /\ last.outcome.code < 300
        /\ FirstDetail(last.outcome.body).t = "object") =>
        LET body == last.outcome.body
            detail == FirstDetail(body)
            sub == Member(detail, "apiSubscriptionTokens")
            paid == Member(detail, "apiPaidTokens")
        IN  /\ Structured(last.ret) = Structured(DecodeUserInfo(FirstDetailOnly(body)))
            /\ sub.t = "number" => DropsFraction(sub, last.ret.APISubscriptionTokens)
            /\ paid.t = "number" => DropsFraction(paid, last.ret.APIPaidTokens)

C19_Witness ==
    /\ last.op = "userinfo" /\ Answered /\ last.outcome.code = 200
    /\ Member(last.outcome.body, "user_details").t = "array"
    /\ Len(Member(last.outcome.body, "user_details").a) = 2
    /\ Member(FirstDetail(last.outcome.body), "apiSubscriptionTokens") = JNum(7, 2)
    /\ last.ret.APISubscriptionTokens = 3
    /\ last.ret.APIPaidTokens = 0
    /\ last.ret.UserID = "user-1"

(***************************************************************************)
(* Properties of the list decoder (checked under SpecList)                 *)
(***************************************************************************)
\* How many object elements the array has up to and including position i.
ObjectRank(a, i) == Cardinality({k \in 1..i : a[k].t = "object"})
\* The string member `key` of an object element, "" when absent or no string.
TextOf(e, key) == IF Member(e, key).t = "string" THEN Member(e, key).s ELSE ""
\* The image entries of an object element, none when it has no such array.
ImageEntriesOf(e) ==
    IF Member(e, "generated_images").t = "array"
    THEN Member(e, "generated_images").a ELSE <<>>
\* urls is the url of the well-formed entries of imgs, in order.
URLsInOrder(imgs, urls) ==
    /\ Len(urls) = Rank(imgs, Len(imgs))
    /\ \A i \in 1..Len(imgs) :
         WellFormedEntry(imgs[i]) => urls[Rank(imgs, i)] = imgs[i].o["url"].s

\* C20: Generations has one item per object element of the generations
\* array, in order; the item's id, status, createdAt and prompt are the
\* element's strings or empty, and its Images follow the rule of Status.
C20_OneItemPerObject ==
    (last.op = "list" /\ Answered /\ last.outcome.code < 300
        /\ Member(last.outcome.body, "generations").t = "array") =>
        LET a == Member(last.outcome.body, "generations").a
            items == last.ret.Generations
        IN  /\ Len(items) = ObjectRank(a, Len(a))
            /\ \A i \in 1..Len(a) :
                 a[i].t = "object" =>
                    LET item == items[ObjectRank(a, i)]
                    IN  /\ item.ID = TextOf(a[i], "id")
                        /\ item.Status = TextOf(a[i], "status")
                        /\ item.CreatedAt = TextOf(a[i], "createdAt")
                        /\ item.Prompt = TextOf(a[i], "prompt")
                        /\ URLsInOrder(ImageEntriesOf(a[i]), item.Images)

C20_Witness ==
    /\ last.op = "list" /\ Answered /\ last.outcome.code = 200
    /\ Member(last.outcome.body, "generations").t = "array"
    /\ Len(Member(last.outcome.body, "generations").a) = 3
    /\ Member(last.outcome.body, "generations").a[2] = JStr("gen-5")
    /\ Len(last.ret.Generations) = 2
    /\ last.ret.Generations[1].ID = "gen-3"
    /\ last.ret.Generations[1].Images
          = <<"https://cdn.leonardo.ai/b.png", "https://cdn.leonardo.ai/a.png">>
    /\ last.ret.Generations[2].ID = ""

(***************************************************************************)
(* Round trip of the request encoder (checked under SpecCreate)            *)
(***************************************************************************)
\* What a server that echoes the received JSON returns, decoded again.
Echo == Unmarshal(last.sent[1].body).m
\* The echoed member `key`, null when the echo lacks it.
Echoed(key) == MapGet(Echo, key)
\* A float field comes back with its value when it is set and finite.
FloatComesBack(f, key) ==
    (f # FloatZero /\ f.k = "fin") => Echoed(key) = JNum(f.n, f.d)

\* C21: every field of the request that is not zero comes back, with the
\* same value, from decoding the echo of the encoded payload.
C21_RoundTrip ==
    Encoded =>
        LET req == last.args.req
        IN  /\ req.Prompt # "" => Echoed("prompt") = JStr(req.Prompt)
            /\ req.NegativePrompt # "" =>
                  Echoed("negative_prompt") = JStr(req.NegativePrompt)
            /\ req.ModelID # "" => Echoed("modelId") = JStr(req.ModelID)
            /\ req.Width # 0 => Echoed("width") = JInt(req.Width)
            /\ req.Height # 0 => Echoed("height") = JInt(req.Height)
            /\ req.NumImages # 0 => Echoed("num_images") = JInt(req.NumImages)
            /\ req.Seed # 0 => Echoed("seed") = JInt(req.Seed)
            /\ req.StyleUUID # "" => Echoed("styleUUID") = JStr(req.StyleUUID)
            /\ FloatComesBack(req.Contrast, "contrast")
            /\ FloatComesBack(req.GuidanceScale, "guidance_scale")
            /\ req.Alchemy => Echoed("alchemy") = JBool(TRUE)
            /\ req.Ultra => Echoed("ultra") = JBool(TRUE)
            /\ req.Private => Echoed("public") = JBool(FALSE)
            /\ req.Tags # <<>> =>
                  Echoed("tags") = JArr([i \in 1..Len(req.Tags) |-> JStr(req.Tags[i])])

(***************************************************************************)
(* Encoding failures (checked under SpecCreate)                            *)
(***************************************************************************)
\* The request holds a value encoding/json cannot write: an infinite
\* contrast or guidance scale that passes the `> 0` guard.
HasUnsupportedValue(req) == req.Contrast = PosInf \/ req.GuidanceScale = PosInf

\* C30: when the payload cannot be serialized, CreateGeneration returns an
\* encoding error and a zero-valued response, and issues no HTTP request.
C30_EncodingErrorSendsNothing ==
    (last.op = "create" /\ HasUnsupportedValue(last.args.req)) =>
        /\ last.sent = <<>>
        /\ ErrContains(last.err, "encoding request body: ")
        /\ last.ret = [GenerationID |-> "", Raw |-> NotJSON("")]

C30_Witness ==
    /\ last.op = "create"
    /\ last.args.req.GuidanceScale = PosInf
    /\ last.args.req.Contrast = Fin(5, 2)
    /\ last.sent = <<>>
    /\ last.err = <<"encoding request body: ", "json: unsupported value">>

(***************************************************************************)
(* Properties of the service layer (checked under Spec)                    *)
(***************************************************************************)
\* What the client operation `op` returns to a direct caller holding the
\* credential `key`, for the arguments `args` and the remote answer `o`.
ClientResult(key, op, args, o) ==
    CASE op = "create" -> CreateGeneration(key, args.req, o)
      [] op = "status" -> GetGenerationStatus(key, args.id, o)
      [] op = "delete" -> DeleteGeneration(key, args.id, o)
      [] op = "userinfo" -> GetUserInfo(key, o)
      [] op = "list" -> ListGenerations(key, args.userID, args.offset, args.limit, o)

\* C22: each of the five service operations returns what the client
\* operation returns for the same arguments: the same requests, result and
\* error, the error unwrapped; Download returns a failure of its status call
\* unchanged.
C22_PassThrough ==
    /\ last.op \in APIOps =>
          LET r == ClientResult(apiKey, last.op, last.args, last.outcome)
          IN  /\ last.sent = r.sent
              /\ last.ret = r.ret
              /\ last.err = r.err
    /\ (dl.pc = "done" /\ dl.status.err # NoError) =>
          /\ dl.err = ClientResult(apiKey, "status", [id |-> dl.id], dl.status.outcome).err
          /\ dl.calls = <<>>

C22_Witness ==
    /\ last.op = "list"
    /\ last.args = [userID |-> "user-1", offset |-> -1, limit |-> 0]
    /\ last.outcome = Response(500, ErrorBody)
    /\ last.err = <<"API returned status ", "500">>
    /\ last.ret.Raw = ErrorBody

ConfiguredKey == "test-api-key"

Inspected == last.op = "inspect"
Readable == last.args.path \in Paths(files)
ContentOf(path) == (CHOOSE f \in files : f.path = path).data

\* C23: inspectSidecar returns an error when the file cannot be read or
\* does not hold valid JSON, and returns nil, having printed the indented
\* document, when it holds valid JSON.
C23_InspectRejectsInvalidJSON ==
    Inspected =>
        /\ ~Readable => last.err # NoError
        /\ (Readable /\ ContentOf(last.args.path).t = "bad") => last.err # NoError
        /\ (Readable /\ ContentOf(last.args.path).t # "bad") =>
              /\ last.err = NoError
              /\ last.printed = [indented |-> TRUE, text |-> ContentOf(last.args.path)]

(***************************************************************************)
(* Further properties of Download (checked under Spec)                     *)
(***************************************************************************)
\* The raw status response holds nothing but the label and the images.
NoParametersIn(raw) ==
    Member(raw, "generations_by_pk").t = "object"
        => DOMAIN Member(raw, "generations_by_pk").o \subseteq {"status", "generated_images"}
\* Every image of the status was fetched and every fetch succeeded.
AllFetched ==
    /\ DownloadRan /\ dl.pc = "done"
    /\ Len(dl.calls) = Len(dl.status.ret.Images)
    /\ Len(dl.calls) >= 1
    /\ \A k \in 1..Len(dl.calls) : dl.calls[k].err = NoError

\* C24: when the raw status response yields no parameters, a Download whose
\* fetches all succeed still succeeds and still leaves, for every image, a
\* sidecar with generation id, image URL and timestamp.
C24_SidecarWithoutParameters ==
    (AllFetched /\ NoParametersIn(dl.status.ret.Raw)) =>
        /\ dl.err = NoError
        /\ \A k \in 1..Len(dl.calls) :
             \E f \in files :
                 /\ f.path = SidecarPath(dl.calls[k].destPath)
                 /\ f.data.t = "object"
                 /\ {"generation_id", "image_url", "timestamp"} \subseteq DOMAIN f.data.o

\* A step in which Download fetched an image.
ImageFetched ==
    /\ dl'.pc \in {"loop", "done"}
    /\ dl'.calls # <<>>
    /\ ~(dl.pc \in {"loop", "done"} /\ dl.calls = dl'.calls)

\* C26: a Download makes one status call, before any DownloadImage call;
\* every DownloadImage call fetches the next URL of the list that status
\* call returned, so no URL is fetched twice and there are never more calls
\* than URLs.
C26_OneStatusThenImages ==
    [][/\ dl'.pc \in {"loop", "done"} => dl'.status.op = "status"
       /\ ImageFetched =>
            /\ dl.pc = "loop"
            /\ dl.status.err = NoError
            /\ dl'.status = dl.status
            /\ Len(dl'.calls) = Len(dl.calls) + 1
            /\ SubSeq(dl'.calls, 1, Len(dl.calls)) = dl.calls
            /\ Len(dl'.calls) <= Len(dl.status.ret.Images)
            /\ dl'.calls[Len(dl'.calls)].url = dl.status.ret.Images[Len(dl'.calls)]]_vars

C26_Witness ==
    /\ dl.pc = "done"
    /\ Len(dl.status.sent) = 1
    /\ Len(dl.status.ret.Images) = 2
    /\ Len(dl.calls) = 2
    /\ dl.calls[1].url # dl.calls[2].url
    /\ dl.calls[2].err # NoError

\* C28: the label is compared with "COMPLETE" exactly: any other label, the
\* empty label of an unparsable or label-less 2xx response included, ends
\* Download with the not-complete error quoting the label and without a
\* fetch; the label COMPLETE never does.
C28_ExactCompleteLabel ==
    DownloadRan =>
        LET label == dl.status.ret.Status
            sent == Member(Member(dl.status.outcome.body, "generations_by_pk"), "status")
        IN  /\ sent.t # "string" => label = ""
            /\ sent.t = "string" => label = sent.s
            /\ label # "COMPLETE" =>
                  /\ dl.pc = "done"
                  /\ dl.err = <<NotCompleteText, label>>
                  /\ dl.calls = <<>>
            /\ label = "COMPLETE" => ~ErrContains(dl.err, NotCompleteText)

C28_Witness ==
    /\ DownloadRan
    /\ dl.status.outcome = Response(200, NotJSON("<html>"))
    /\ dl.err = <<NotCompleteText, "">>
    /\ dl.calls = <<>>

\* C29: a Download that returns an error returns no file path, even with
\* images already on disk; it returns paths only without error, and then one
\* per image of the status.
C29_NoPathsOnError ==
    dl.pc = "done" =>
        /\ dl.err # NoError => dl.result.FilePaths = <<>>
        /\ dl.result.FilePaths # <<>> =>
              /\ dl.err = NoError
              /\ Len(dl.result.FilePaths) = Len(dl.status.ret.Images)

C29_Witness ==
    /\ dl.pc = "done"
    /\ dl.err # NoError
    /\ Len(dl.calls) = 2
    /\ dl.calls[1].destPath \in Paths(files)
    /\ dl.calls[2].destPath \notin Paths(files)
    /\ dl.result.FilePaths = <<>>

====
